---- MODULE Spec2Model ----
(***************************************************************************)
(* The file / comment views of backend/apps/files/views.py as a state      *)
(* machine.  The database (File and Comment tables) is shared state; every *)
(* request is handled by a worker whose handler is cut at its database     *)
(* accesses: a handler that reads an object and later saves or deletes it  *)
(* takes two steps, so that requests of different workers interleave the   *)
(* way they do in a deployment that serves requests concurrently (Django   *)
(* runs each query in autocommit mode; the views open no transaction).     *)
(***************************************************************************)
EXTENDS Integers, Sequences, FiniteSets, TLC

\* ---------------------------------------------------------------- bounds
MaxFiles == 2       \* File ids the model allocates
MaxComments == 1    \* Comment ids the model allocates
MaxRequests == 3    \* requests the model starts in one behaviour

\* page_size of FileListCreateView
PageSize == 5

Workers == {1, 2}
Users == {"A", "B", "C"}
FileIds == 1..MaxFiles
CommentIds == 1..MaxComments

\* File names and search strings are sequences of characters.
Queries == {<<>>, <<"a">>, <<"b">>, <<"A", "B">>}

\* Request bodies.  A field that is left out is <<>>, "none" or 0; a body may
\* name an owner, a content or a file of its own.
FileBodies ==
    { [name |-> <<"a">>,      content |-> "k1",   owner |-> "none"],
      [name |-> <<"A", "b">>, content |-> "k2",   owner |-> "C"],
      [name |-> <<"B">>,      content |-> "none", owner |-> "none"],
      [name |-> <<>>,         content |-> "k1",   owner |-> "none"] }
CommentBodies ==
    { [body |-> "nice", owner |-> "none", file |-> 0],
      [body |-> "ok",   owner |-> "C",    file |-> MaxFiles],
      [body |-> "",     owner |-> "none", file |-> 0] }
\* query parameters of the list request
ListParams ==
    { [hasQuery |-> FALSE, query |-> <<>>, page |-> 1],
      [hasQuery |-> FALSE, query |-> <<>>, page |-> 2] }
    \cup [hasQuery : {TRUE}, query : Queries, page : {1}]

VARIABLES
    files,          \* File table: id -> [owner, name, content]
    comments,       \* Comment table: id -> [owner, file, body]
    nextFileId,     \* the File table's auto-increment
    nextCommentId,  \* the Comment table's auto-increment
    pc,             \* pc[w]: where worker w's handler stands
    req,            \* req[w]: the request worker w is handling
    snap,           \* snap[w]: the model instance the handler holds
    resp,           \* the request answered last, and its response
    nreq,           \* requests started so far
    created         \* history: the File each id was created as

vars == <<files, comments, nextFileId, nextCommentId, pc, req, snap, resp, nreq, created>>

NoReq == [op |-> "none", user |-> "none", id |-> 0]
NoObj == [none |-> TRUE]

\* rest_framework.response.Response as the views build it, kept with the
\* request it answers: body is the request's data, read the instance the
\* handler had read, result the data of the response.
Response(status, payload, body, read, result) ==
    [status |-> status, payload |-> payload, body |-> body, read |-> read,
     result |-> result]

\* ------------------------------------------------------------ the ORM
\* Lower-casing of one character, as the database's case-insensitive match does.
Lower(c) == IF c = "A" THEN "a" ELSE IF c = "B" THEN "b" ELSE c

\* name__icontains=query: query occurs in name at some offset, ignoring case.
icontains(name, query) ==
    \E i \in 0..(Len(name) - Len(query)) :
        \A j \in 1..Len(query) : Lower(name[i + j]) = Lower(query[j])

\* a slip: the filter without owner=user
FilterFiles_any_owner(user, query) ==
    {id \in DOMAIN files : icontains(files[id].name, query)}

\* File.objects.filter(owner=user, name__icontains=query)
FilterFiles(user, query) ==
    {id \in DOMAIN files : files[id].owner = user /\ icontains(files[id].name, query)}

\* A table with row id removed.
Without(table, id) == [k \in DOMAIN table \ {id} |-> table[k]]

\* Model.save() of an instance that has a primary key: UPDATE the row, and
\* INSERT it when the UPDATE matched no row.
SaveRow(table, id, row) == [k \in DOMAIN table \cup {id} |-> IF k = id THEN row ELSE table[k]]

\* a foreign key that does not cascade (on_delete=SET_NULL keeps the comments)
Cascade_keep(id) == comments

\* Comment.file is a foreign key with on_delete=CASCADE: the comments of a
\* deleted file go with it.
Cascade(id) == [k \in {c \in DOMAIN comments : comments[c].file # id} |-> comments[k]]

\* Paginator.num_pages: page_size rows to a page, and one page when there are none
NumPages(set) == IF set = {} THEN 1 ELSE (Cardinality(set) + PageSize - 1) \div PageSize

\* -------------------------------------------------------- serializers
\* FileSerializer.is_valid: name and content are required.
FileSerializer_is_valid(body) == body.name # <<>> /\ body.content # "none"
\* FileSerializer.is_valid against an instance: the new name is required.
FileSerializer_is_valid_update(body) == body.name # <<>>
\* FileSerializer.update: metadata (the name) only.
FileSerializer_update(instance, body) == [instance EXCEPT !.name = body.name]

\* CommentSerializer.is_valid: the text is required.
CommentSerializer_is_valid(body) == body.body # ""
\* CommentSerializer.update: the text only.
CommentSerializer_update(instance, body) == [instance EXCEPT !.body = body.body]

\* The instance FileListCreateView.post saves: serializer.save(owner=user), whose
\* keyword arguments win over what the body names.
FileListCreateView_post_instance(body, user) ==
    [owner |-> user, name |-> body.name, content |-> body.content]

\* a slip: the update saved the way the create is, save(owner=request.user)
FileUpdateDestroyView_put_instance_owner(instance, body, user) ==
    [FileSerializer_update(instance, body) EXCEPT !.owner = user]

\* The instance FileUpdateDestroyView.put saves: serializer.save() with no
\* keyword argument, on the instance it has read.
FileUpdateDestroyView_put_instance(instance, body, user) ==
    FileSerializer_update(instance, body)

\* a slip: save(file=file) alone, the owner left to the body
CommentOnFile_post_instance_body_owner(body, fileId, user) ==
    [owner |-> IF body.owner = "none" THEN user ELSE body.owner,
     file |-> fileId, body |-> body.body]

\* The instance CommentOnFile.post saves: serializer.save(file=file, owner=owner).
CommentOnFile_post_instance(body, fileId, user) ==
    [owner |-> user, file |-> fileId, body |-> body.body]

\* The instance GetFileComments.put saves: serializer.save() on the comment read.
GetFileComments_put_instance(instance, body) == CommentSerializer_update(instance, body)

\* utils.permissions.ISOwner, as the access control policy states it for the
\* comment thread of a file.
ISOwner(user, file) == user = file.owner

\* ------------------------------------------------------------ requests
Idle(w) == pc[w] = "idle" /\ nreq < MaxRequests

\* the handler returns: the request is answered
Return(w, op, user, id, response) ==
    /\ pc' = [pc EXCEPT ![w] = "idle"]
    /\ req' = [req EXCEPT ![w] = NoReq]
    /\ snap' = [snap EXCEPT ![w] = NoObj]
    /\ resp' = [op |-> op, user |-> user, id |-> id] @@ response

\* a handler that answers in the step that starts it
Answer(w, op, user, id, response) ==
    /\ Return(w, op, user, id, response)
    /\ nreq' = nreq + 1

\* a handler that has read its object and goes on to its write
Hold(w, op, user, id, at, instance) ==
    /\ pc' = [pc EXCEPT ![w] = at]
    /\ req' = [req EXCEPT ![w] = [op |-> op, user |-> user, id |-> id]]
    /\ snap' = [snap EXCEPT ![w] = instance]
    /\ nreq' = nreq + 1
    /\ UNCHANGED resp

\* a handler that returns from its second step
Finish(w, response) ==
    /\ Return(w, req[w].op, req[w].user, req[w].id, response)
    /\ UNCHANGED nreq

Init ==
    /\ files = <<>>
    /\ comments = <<>>
    /\ nextFileId = 1
    /\ nextCommentId = 1
    /\ pc = [w \in Workers |-> "idle"]
    /\ req = [w \in Workers |-> NoReq]
    /\ snap = [w \in Workers |-> NoObj]
    /\ resp = NoReq @@ Response(0, "none", NoObj, NoObj, NoObj)
    /\ nreq = 0
    /\ created = <<>>

\* FileListCreateView.get
FileListCreateView_get(w) ==
    /\ Idle(w)
    /\ \E user \in Users, params \in ListParams :
        LET query == IF params.hasQuery THEN params.query ELSE <<>>
            matched == FilterFiles(user, query)
            found == [matched |-> matched, returned |-> {}]
        IN  IF matched # {}
            THEN IF params.page > NumPages(matched)
                 \* paginate_queryset raises NotFound for a page that is not there
                 THEN Answer(w, "list", user, 0, Response(404, "detail", params, NoObj, found))
                 \* get_paginated_response(data) takes no status argument:
                 \* the call raises TypeError
                 ELSE Answer(w, "list", user, 0, Response(500, "exception", params, NoObj, found))
            ELSE Answer(w, "list", user, 0, Response(200, "message", params, NoObj, found))
    /\ UNCHANGED <<files, comments, nextFileId, nextCommentId, created>>

\* FileListCreateView.post
FileListCreateView_post(w) ==
    /\ Idle(w)
    /\ \E user \in Users, body \in FileBodies :
        IF ~FileSerializer_is_valid(body)
        THEN /\ Answer(w, "create", user, 0, Response(400, "detail", body, NoObj, NoObj))
             /\ UNCHANGED <<files, nextFileId, created>>
        ELSE /\ nextFileId <= MaxFiles
             /\ files' = SaveRow(files, nextFileId, FileListCreateView_post_instance(body, user))
             /\ created' = SaveRow(created, nextFileId,
                                   FileListCreateView_post_instance(body, user))
             /\ nextFileId' = nextFileId + 1
             /\ Answer(w, "create", user, nextFileId,
                       Response(201, "data", body, NoObj,
                                FileListCreateView_post_instance(body, user)))
    /\ UNCHANGED <<comments, nextCommentId>>

\* FileUpdateDestroyView.put, to File.objects.get(id=id)
FileUpdateDestroyView_put_get(w) ==
    /\ Idle(w)
    /\ \E user \in Users, id \in FileIds :
        IF id \in DOMAIN files
        THEN Hold(w, "update", user, id, "put_save", files[id])
        \* File.DoesNotExist is not caught
        ELSE Answer(w, "update", user, id, Response(500, "exception", NoObj, NoObj, NoObj))
    /\ UNCHANGED <<files, comments, nextFileId, nextCommentId, created>>

\* a variant with an optimistic check: the save is refused when the row is no
\* longer the one that was read
FileUpdateDestroyView_put_save_checked(w) ==
    /\ pc[w] = "put_save"
    /\ \E body \in FileBodies :
        IF ~FileSerializer_is_valid_update(body)
        THEN /\ Finish(w, Response(500, "exception", body, snap[w], NoObj))
             /\ UNCHANGED files
        ELSE IF req[w].id \notin DOMAIN files \/ files[req[w].id] # snap[w]
        THEN /\ Finish(w, Response(409, "detail", body, snap[w], NoObj))
             /\ UNCHANGED files
        ELSE /\ files' = SaveRow(files, req[w].id,
                                 FileUpdateDestroyView_put_instance(snap[w], body, req[w].user))
             /\ Finish(w, Response(200, "data", body, snap[w],
                                   FileUpdateDestroyView_put_instance(snap[w], body, req[w].user)))
    /\ UNCHANGED <<comments, nextFileId, nextCommentId, created>>

\* FileUpdateDestroyView.put, from the serializer on
FileUpdateDestroyView_put_save(w) ==
    /\ pc[w] = "put_save"
    /\ \E body \in FileBodies :
        \* is_valid() does not raise; save() on invalid data fails its assertion
        IF ~FileSerializer_is_valid_update(body)
        THEN /\ Finish(w, Response(500, "exception", body, snap[w], NoObj))
             /\ UNCHANGED files
        ELSE /\ files' = SaveRow(files, req[w].id,
                                 FileUpdateDestroyView_put_instance(snap[w], body, req[w].user))
             /\ Finish(w, Response(200, "data", body, snap[w],
                                   FileUpdateDestroyView_put_instance(snap[w], body, req[w].user)))
    /\ UNCHANGED <<comments, nextFileId, nextCommentId, created>>

\* FileUpdateDestroyView.delete, to File.objects.get(id=id)
FileUpdateDestroyView_delete_get(w) ==
    /\ Idle(w)
    /\ \E user \in Users, id \in FileIds :
        IF id \in DOMAIN files
        THEN Hold(w, "delete", user, id, "delete_do", files[id])
        \* File.DoesNotExist is not caught: the else branch of the view is never reached
        ELSE Answer(w, "delete", user, id, Response(500, "exception", NoObj, NoObj, NoObj))
    /\ UNCHANGED <<files, comments, nextFileId, nextCommentId, created>>

\* FileUpdateDestroyView.delete, file.delete()
FileUpdateDestroyView_delete_do(w) ==
    /\ pc[w] = "delete_do"
    /\ files' = Without(files, req[w].id)
    /\ comments' = Cascade(req[w].id)
    \* result: the comments file.delete() collected and deleted with the file
    /\ Finish(w, Response(200, "success", NoObj, snap[w],
                          [comments |-> DOMAIN comments \ DOMAIN Cascade(req[w].id)]))
    /\ UNCHANGED <<nextFileId, nextCommentId, created>>

\* DownloadFileAPIView.get
DownloadFileAPIView_get(w) ==
    /\ Idle(w)
    /\ \E user \in Users, id \in FileIds :
        IF id \in DOMAIN files
        THEN Answer(w, "download", user, id,
                    Response(200, "stream", NoObj, files[id], files[id]))
        ELSE Answer(w, "download", user, id, Response(404, "error", NoObj, NoObj, NoObj))
    /\ UNCHANGED <<files, comments, nextFileId, nextCommentId, created>>

\* CommentOnFile.post, to get_object_or_404(File, id=id)
CommentOnFile_post_get(w) ==
    /\ Idle(w)
    /\ \E user \in Users, id \in FileIds :
        IF id \in DOMAIN files
        THEN Hold(w, "addComment", user, id, "post_save", files[id])
        ELSE Answer(w, "addComment", user, id, Response(404, "detail", NoObj, NoObj, NoObj))
    /\ UNCHANGED <<files, comments, nextFileId, nextCommentId, created>>

\* CommentOnFile.post, from the serializer on
CommentOnFile_post_save(w) ==
    /\ pc[w] = "post_save"
    /\ \E body \in CommentBodies :
        LET comment == CommentOnFile_post_instance(body, req[w].id, req[w].user)
        IN  IF ~CommentSerializer_is_valid(body)
            THEN /\ Finish(w, Response(400, "detail", body, snap[w], NoObj))
                 /\ UNCHANGED <<comments, nextCommentId>>
            ELSE IF comment.file \notin DOMAIN files
            \* the file is gone: the INSERT breaks the foreign key (IntegrityError)
            THEN /\ Finish(w, Response(500, "exception", body, snap[w], NoObj))
                 /\ UNCHANGED <<comments, nextCommentId>>
            ELSE /\ nextCommentId <= MaxComments
                 /\ comments' = SaveRow(comments, nextCommentId, comment)
                 /\ nextCommentId' = nextCommentId + 1
                 /\ Finish(w, Response(201, "data", body, snap[w],
                                       [id |-> nextCommentId, comment |-> comment]))
    /\ UNCHANGED <<files, nextFileId, created>>

\* GetFileComments.get, behind the ISOwner permission
GetFileComments_get(w) ==
    /\ Idle(w)
    /\ \E user \in Users, id \in FileIds :
        IF id \notin DOMAIN files
        \* File.DoesNotExist is not caught
        THEN Answer(w, "getFileWithComments", user, id,
                    Response(500, "exception", NoObj, NoObj, NoObj))
        ELSE IF ~ISOwner(user, files[id])
        THEN Answer(w, "getFileWithComments", user, id,
                    Response(403, "detail", NoObj, NoObj, NoObj))
        ELSE Answer(w, "getFileWithComments", user, id,
                    Response(200, "data", NoObj, files[id],
                             [file |-> files[id],
                              comments |-> {c \in DOMAIN comments : comments[c].file = id}]))
    /\ UNCHANGED <<files, comments, nextFileId, nextCommentId, created>>

\* GetFileComments.put, to Comment.objects.get(id=id)
GetFileComments_put_get(w) ==
    /\ Idle(w)
    /\ \E user \in Users, id \in CommentIds :
        IF id \in DOMAIN comments
        THEN Hold(w, "updateComment", user, id, "cput_save", comments[id])
        \* Comment.DoesNotExist is not caught
        ELSE Answer(w, "updateComment", user, id,
                    Response(500, "exception", NoObj, NoObj, NoObj))
    /\ UNCHANGED <<files, comments, nextFileId, nextCommentId, created>>

\* GetFileComments.put, from the serializer on
GetFileComments_put_save(w) ==
    /\ pc[w] = "cput_save"
    /\ \E body \in CommentBodies :
        LET comment == GetFileComments_put_instance(snap[w], body)
        IN  IF ~CommentSerializer_is_valid(body)
            THEN /\ Finish(w, Response(400, "detail", body, snap[w], NoObj))
                 /\ UNCHANGED comments
            ELSE IF comment.file \notin DOMAIN files
            \* the row and its file are gone: the INSERT breaks the foreign key
            THEN /\ Finish(w, Response(500, "exception", body, snap[w], NoObj))
                 /\ UNCHANGED comments
            ELSE /\ comments' = SaveRow(comments, req[w].id, comment)
                 /\ Finish(w, Response(200, "data", body, snap[w], comment))
    /\ UNCHANGED <<files, nextFileId, nextCommentId, created>>

\* GetFileComments.delete, to Comment.objects.get(id=id)
GetFileComments_delete_get(w) ==
    /\ Idle(w)
    /\ \E user \in Users, id \in CommentIds :
        IF id \in DOMAIN comments
        THEN Hold(w, "deleteComment", user, id, "cdel_do", comments[id])
        \* Comment.DoesNotExist is not caught
        ELSE Answer(w, "deleteComment", user, id,
                    Response(500, "exception", NoObj, NoObj, NoObj))
    /\ UNCHANGED <<files, comments, nextFileId, nextCommentId, created>>

\* a slip: the comment's owner alone may delete
MayDeleteComment_owner_only(user, comment) == user = comment.owner

\* the test of GetFileComments.delete; comment.file is fetched when the user
\* is not the comment's owner
MayDeleteComment(user, comment) ==
    user = comment.owner \/ user = files[comment.file].owner

\* GetFileComments.delete, from the permission test on
GetFileComments_delete_do(w) ==
    /\ pc[w] = "cdel_do"
    /\ IF req[w].user # snap[w].owner /\ snap[w].file \notin DOMAIN files
       \* comment.file raises File.DoesNotExist: the file went meanwhile
       THEN /\ Finish(w, Response(500, "exception", NoObj, snap[w], NoObj))
            /\ UNCHANGED comments
       ELSE IF MayDeleteComment(req[w].user, snap[w])
       THEN /\ comments' = Without(comments, req[w].id)
            /\ Finish(w, Response(200, "success", NoObj, snap[w], NoObj))
       ELSE /\ Finish(w, Response(200, "error", NoObj, snap[w], NoObj))
            /\ UNCHANGED comments
    /\ UNCHANGED <<files, nextFileId, nextCommentId, created>>

Next ==
    \E w \in Workers :
        \/ FileListCreateView_get(w)
        \/ FileListCreateView_post(w)
        \/ FileUpdateDestroyView_put_get(w)
        \/ FileUpdateDestroyView_put_save(w)
        \/ FileUpdateDestroyView_delete_get(w)
        \/ FileUpdateDestroyView_delete_do(w)
        \/ DownloadFileAPIView_get(w)
        \/ CommentOnFile_post_get(w)
        \/ CommentOnFile_post_save(w)
        \/ GetFileComments_get(w)
        \/ GetFileComments_put_get(w)
        \/ GetFileComments_put_save(w)
        \/ GetFileComments_delete_get(w)
        \/ GetFileComments_delete_do(w)

Spec == Init /\ [][Next]_vars

\* ------------------------------------------------------------ outcomes
\* How the boundary layer reads a response.
IsNotFound(r) == r.status = 404
IsValidationError(r) == r.status = 400
IsForbidden(r) == r.status = 403
IsSuccess(r) == r.status \in {200, 201} /\ r.payload # "error"
IsErrorPayload(r) == r.status = 200 /\ r.payload = "error"
\* the handler had found the object it looked up / had read the request's data
HasRead(r) == "none" \notin DOMAIN r.read
HasBody(r) == "none" \notin DOMAIN r.body

\* resp is the response of the request answered last, and the tables change
\* only in the step that answers a request: in every state resp stands beside
\* the tables as its request left them.

\* ------------------------------------------------------------------ C1
\* C1: deleteComment(p, c) on an existing comment c removes c, and nothing
\* else, when p is c's owner or the owner of c's file; for every other
\* principal it answers with an error payload and leaves every comment and
\* every file as they were.
C1_DeleteCommentPolicy ==
    [][\A w \in Workers :
        (pc[w] = "cdel_do" /\ pc'[w] = "idle" /\ req[w].id \in DOMAIN comments) =>
            LET c == req[w].id
                p == req[w].user
                allowed == p = comments[c].owner \/ p = files[comments[c].file].owner
            IN  /\ allowed =>
                    /\ IsSuccess(resp')
                    /\ DOMAIN comments' = DOMAIN comments \ {c}
                    /\ \A k \in DOMAIN comments' : comments'[k] = comments[k]
                    /\ files' = files
                /\ ~allowed =>
                    /\ IsErrorPayload(resp')
                    /\ comments' = comments
                    /\ files' = files]_vars

\* A stranger (neither the comment's owner nor the file's) has been denied,
\* on a comment whose owner is not the file's owner.
C1_Witness ==
    /\ resp.op = "deleteComment"
    /\ IsErrorPayload(resp)
    /\ resp.id \in DOMAIN comments
    /\ comments[resp.id].owner # files[comments[resp.id].file].owner
    /\ resp.user \notin {comments[resp.id].owner, files[comments[resp.id].file].owner}

\* ------------------------------------------------------------------ C2
\* C2: getFileWithComments(p, id) succeeds only for the file's owner, fails
\* with Forbidden (and no data) for every other principal, and fails with
\* NotFound when there is no file id.
C2_ThreadReadContract ==
    resp.op = "getFileWithComments" =>
        IF resp.id \notin DOMAIN files THEN IsNotFound(resp)
        ELSE IF resp.user = files[resp.id].owner THEN IsSuccess(resp)
        ELSE IsForbidden(resp) /\ ~HasRead(resp)

Upper(c) == IF c = "a" THEN "A" ELSE IF c = "b" THEN "B" ELSE c
UpperSeq(s) == [i \in 1..Len(s) |-> Upper(s[i])]
\* some stretch of name reads as query once both are in upper case
ContainsIgnoringCase(name, query) ==
    \E i \in 1..(Len(name) + 1) : \E j \in (i - 1)..Len(name) :
        UpperSeq(SubSeq(name, i, j)) = UpperSeq(query)

C6_MissingFileIsNotFound ==
    (resp.op \in {"update", "delete", "download"} /\ ~HasRead(resp)) => IsNotFound(resp)

\* ------------------------------------------------------------------ C7
\* C7: a create or an update whose input is missing or invalid fails with
\* ValidationError.
C7_InvalidInputIsValidationError ==
    /\ (resp.op = "create" /\ ~FileSerializer_is_valid(resp.body))
           => IsValidationError(resp)
    /\ (resp.op = "update" /\ HasBody(resp) /\ ~FileSerializer_is_valid_update(resp.body))
           => IsValidationError(resp)

\* ------------------------------------------------------------------ C8
\* C8: addComment(p, id, body) goes past its lookup only when file id exists,
\* and otherwise answers NotFound and creates nothing; its save, with a text
\* and on a file that exists, creates exactly one comment, owned by p and on
\* file id, whatever the body names, and changes no other comment.
C8_AddComment ==
    [][/\ \A w \in Workers :
            (pc[w] = "idle" /\ pc'[w] = "post_save") => req'[w].id \in DOMAIN files
       /\ (nreq' # nreq /\ pc' = pc /\ resp'.op = "addComment") =>
            /\ resp'.id \notin DOMAIN files
            /\ IsNotFound(resp')
            /\ comments' = comments
       /\ \A w \in Workers :
            (/\ pc[w] = "post_save" /\ pc'[w] = "idle"
             /\ resp'.body.body # ""
             /\ req[w].id \in DOMAIN files) =>
                /\ resp'.status = 201
                /\ \E c \in CommentIds \ DOMAIN comments :
                    /\ DOMAIN comments' = DOMAIN comments \cup {c}
                    /\ comments'[c].owner = req[w].user
                    /\ comments'[c].file = req[w].id
                    /\ \A k \in DOMAIN comments : comments'[k] = comments[k]]_vars

\* A principal who does not own the file has commented on it with a body
\* that names another owner and another file.
C8_Witness ==
    /\ resp.op = "addComment"
    /\ resp.status = 201
    /\ resp.user # files[resp.id].owner
    /\ resp.body.owner \notin {"none", resp.user}
    /\ resp.body.file \notin {0, resp.id}
    /\ comments[resp.result.id].owner = resp.user
    /\ comments[resp.result.id].file = resp.id

C10_StaysDeleted ==
    [][\A id \in FileIds :
        (id < nextFileId /\ id \notin DOMAIN files) => id \notin DOMAIN files']_vars

====
